---- MODULE Spec2Model ----
(***************************************************************************)
(* A model of src/uploads/app.py: the line-fingerprint similarity engine   *)
(* (get_ast_hash, get_tokens, get_text_hash, compare_files,                *)
(* compare_two_codes, group_similar_files) and the two request handlers    *)
(* (/compare, /group) with their validators.                               *)
(*                                                                         *)
(* Texts are sequences of one-character strings.  A digest is modelled as  *)
(* a collision-free function of the digested string: two hexdigests are   *)
(* equal exactly when the digested strings are equal.  A percentage is an  *)
(* exact rational <<numerator, denominator>> in lowest terms.              *)
(***************************************************************************)
EXTENDS Integers, Sequences, FiniteSets, TLC

-----------------------------------------------------------------------------
(* Bounds of the model.                                                    *)

\* longest text drawn exhaustively over ExhaustAlphabet
MaxLen == 2

\* most lines of a document assembled from PoolLines
MaxLines == 2

\* most files uploaded in one /group request
MaxFiles == 3

-----------------------------------------------------------------------------
(* Characters.                                                             *)

LetterChars == {"x", "y", "z"}

DigitChars == {"1", "2", "3"}

\* the characters the regular expression class \w matches
WordChars == LetterChars \cup DigitChars

IsWordChar(c) == c \in WordChars

NL == "\n"

SeqUpTo(S, n) == UNION {[1..k -> S] : k \in 0..n}

-----------------------------------------------------------------------------
(* str.splitlines(): break at every line break; a final line break opens   *)
(* no further (empty) line.                                                *)

RECURSIVE FirstBreak(_, _)
FirstBreak(s, i) ==
    IF i > Len(s) THEN 0
    ELSE IF s[i] = NL THEN i
    ELSE FirstBreak(s, i + 1)

RECURSIVE splitlines(_)
splitlines(s) ==
    IF s = <<>> THEN <<>>
    ELSE LET n == FirstBreak(s, 1)
         IN  IF n = 0 THEN <<s>>
             ELSE <<SubSeq(s, 1, n - 1)>> \o splitlines(SubSeq(s, n + 1, Len(s)))

-----------------------------------------------------------------------------
(* hashlib.md5(...).hexdigest(): a value that is truthy and equal to       *)
(* another digest exactly when the digested strings are equal.  None is    *)
(* get_ast_hash's result for a line that does not parse.                   *)

md5(s) == [some |-> TRUE, hexdigest |-> s]

None == [some |-> FALSE, hexdigest |-> <<>>]

\* Python truthiness of a digest-or-None
Truthy(h) == h.some

-----------------------------------------------------------------------------
(* re.sub(r'\b\w+\b', 'TOKEN', text): every maximal run of word characters *)
(* becomes the five characters TOKEN; everything else is kept.             *)

TOKEN == <<"T", "O", "K", "E", "N">>

RECURSIVE WordRunLen(_)
WordRunLen(s) ==
    IF s = <<>> \/ ~IsWordChar(Head(s)) THEN 0
    ELSE 1 + WordRunLen(Tail(s))

RECURSIVE MaskWords(_)
MaskWords(s) ==
    IF s = <<>> THEN <<>>
    ELSE IF IsWordChar(Head(s))
         THEN TOKEN \o MaskWords(SubSeq(s, WordRunLen(s) + 1, Len(s)))
         ELSE <<Head(s)>> \o MaskWords(Tail(s))

\* a variant that fingerprints the spelling of the line, nothing masked
get_tokens_spelled(code) == md5(code)

get_tokens(code) == md5(MaskWords(code))

get_text_hash(text) == md5(MaskWords(text))

-----------------------------------------------------------------------------
(* ast.parse(line) for the fragment of Python that the characters above    *)
(* can spell: names, integer literals, unary and binary +, == comparison   *)
(* chains, (chained) assignment and += assignment.  Anything else, a       *)
(* stray brace, an indented line, is a SyntaxError.                        *)

Tok(t, v) == [t |-> t, v |-> v]

\* tokenize: blanks separate tokens, operators take the longest match
RECURSIVE Lex(_)
Lex(s) ==
    IF s = <<>> THEN <<>>
    ELSE IF Head(s) = " " THEN Lex(Tail(s))
    ELSE IF IsWordChar(Head(s)) THEN
        LET n == WordRunLen(s)
            w == SubSeq(s, 1, n)
            kind == IF Head(s) \in LetterChars THEN "NAME"
                    ELSE IF \A i \in 1..n : w[i] \in DigitChars THEN "NUMBER"
                    ELSE "ERRORTOKEN"
        IN  <<Tok(kind, w)>> \o Lex(SubSeq(s, n + 1, Len(s)))
    ELSE IF Head(s) \in {"=", "+"} /\ Len(s) >= 2 /\ s[2] = "=" THEN
        <<Tok("OP", <<Head(s), "=">>)>> \o Lex(SubSeq(s, 3, Len(s)))
    ELSE IF Head(s) \in {"=", "+"} THEN
        <<Tok("OP", <<Head(s)>>)>> \o Lex(Tail(s))
    ELSE <<Tok("ERRORTOKEN", <<Head(s)>>)>> \o Lex(Tail(s))

IsOp(toks, i, op) == i <= Len(toks) /\ toks[i] = Tok("OP", op)

NoParse == [ok |-> FALSE, node |-> <<>>, next |-> 0]

Parsed(node, next) == [ok |-> TRUE, node |-> node, next |-> next]

Name(id, ctx) == [node |-> "Name", id |-> id, ctx |-> ctx]

\* atom: NAME | NUMBER
ParseAtom(toks, i) ==
    IF i > Len(toks) THEN NoParse
    ELSE IF toks[i].t = "NAME" THEN Parsed(Name(toks[i].v, "Load"), i + 1)
    ELSE IF toks[i].t = "NUMBER"
         THEN Parsed([node |-> "Constant", value |-> toks[i].v], i + 1)
    ELSE NoParse

\* factor: '+' factor | atom
RECURSIVE ParseFactor(_, _)
ParseFactor(toks, i) ==
    IF IsOp(toks, i, <<"+">>) THEN
        LET r == ParseFactor(toks, i + 1)
        IN  IF r.ok
            THEN Parsed([node |-> "UnaryOp", op |-> "UAdd", operand |-> r.node], r.next)
            ELSE NoParse
    ELSE ParseAtom(toks, i)

\* sum: factor ('+' factor)*, left associative
RECURSIVE SumRest(_, _, _)
SumRest(toks, i, left) ==
    IF IsOp(toks, i, <<"+">>) THEN
        LET r == ParseFactor(toks, i + 1)
        IN  IF r.ok
            THEN SumRest(toks, r.next,
                     [node |-> "BinOp", left |-> left, op |-> "Add", right |-> r.node])
            ELSE NoParse
    ELSE Parsed(left, i)

SumFrom(toks, f) == IF f.ok THEN SumRest(toks, f.next, f.node) ELSE NoParse

ParseSum(toks, i) == SumFrom(toks, ParseFactor(toks, i))

\* comparison: sum ('==' sum)*, one Compare node for the whole chain
RECURSIVE CompareRest(_, _, _)
RECURSIVE CompareNext(_, _, _)
CompareNext(toks, r, comparators) ==
    IF r.ok THEN CompareRest(toks, r.next, Append(comparators, r.node)) ELSE NoParse

CompareRest(toks, i, comparators) ==
    IF IsOp(toks, i, <<"=", "=">>) THEN CompareNext(toks, ParseSum(toks, i + 1), comparators)
    ELSE Parsed(comparators, i)

CompareOf(a, c) ==
    IF ~c.ok THEN NoParse
    ELSE IF c.node = <<>> THEN a
    ELSE Parsed([node |-> "Compare", left |-> a.node, comparators |-> c.node], c.next)

ExpressionFrom(toks, a) ==
    IF ~a.ok THEN NoParse ELSE CompareOf(a, CompareRest(toks, a.next, <<>>))

ParseExpression(toks, i) == ExpressionFrom(toks, ParseSum(toks, i))

\* the number of leading "NAME =" pairs from token i on
RECURSIVE TargetCount(_, _)
TargetCount(toks, i) ==
    IF i <= Len(toks) /\ toks[i].t = "NAME" /\ IsOp(toks, i + 1, <<"=">>)
    THEN 1 + TargetCount(toks, i + 2)
    ELSE 0

\* the value of a statement: an expression that uses up the line
WholeLine(toks, e) == IF e.ok /\ e.next = Len(toks) + 1 THEN e ELSE NoParse

ParseValue(toks, i) == WholeLine(toks, ParseExpression(toks, i))

\* the statement around its value v: k > 0 targets, a += target, or neither
StatementOf(toks, k, aug, v) ==
    IF ~v.ok THEN NoParse
    ELSE IF k > 0 THEN
        Parsed([node |-> "Assign",
                targets |-> [j \in 1..k |-> Name(toks[2 * j - 1].v, "Store")],
                value |-> v.node], v.next)
    ELSE IF aug THEN
        Parsed([node |-> "AugAssign", target |-> Name(toks[1].v, "Store"),
                op |-> "Add", value |-> v.node], v.next)
    ELSE Parsed([node |-> "Expr", value |-> v.node], v.next)

IsAugAssign(toks) ==
    Len(toks) >= 1 /\ toks[1].t = "NAME" /\ IsOp(toks, 2, <<"+", "=">>)

\* where the value starts: after the k targets, after NAME +=, or at once
ValueStart(k, aug) == IF k > 0 THEN 2 * k + 1 ELSE IF aug THEN 3 ELSE 1

StatementWith(toks, k, aug) ==
    StatementOf(toks, k, aug, ParseValue(toks, ValueStart(k, aug)))

ParseStatement(toks) == StatementWith(toks, TargetCount(toks, 1), IsAugAssign(toks))

\* ast.parse: a Module of zero or one statement, or a SyntaxError (ok = FALSE)
ModuleOf(st) ==
    IF st.ok THEN Parsed([node |-> "Module", body |-> <<st.node>>], st.next) ELSE NoParse

ParseTokens(code, toks) ==
    IF toks = <<>> THEN Parsed([node |-> "Module", body |-> <<>>], 1)
    ELSE IF Head(code) = " " THEN NoParse      \* IndentationError
    ELSE IF \E i \in 1..Len(toks) : toks[i].t = "ERRORTOKEN" THEN NoParse
    ELSE ModuleOf(ParseStatement(toks))

ast_parse(code) == ParseTokens(code, Lex(code))

-----------------------------------------------------------------------------
(* The walk of get_ast_hash: every Name's id becomes REDACTED; constants   *)
(* and operators are left as they are.                                     *)

REDACTED == <<"R", "E", "D", "A", "C", "T", "E", "D">>

RECURSIVE Redact(_)
Redact(n) ==
    CASE n.node = "Name" -> [n EXCEPT !.id = REDACTED]
      [] n.node = "Constant" -> n
      [] n.node = "UnaryOp" -> [n EXCEPT !.operand = Redact(n.operand)]
      [] n.node = "BinOp" -> [n EXCEPT !.left = Redact(n.left), !.right = Redact(n.right)]
      [] n.node = "Compare" ->
            [n EXCEPT !.left = Redact(n.left),
                      !.comparators = [j \in 1..Len(n.comparators) |-> Redact(n.comparators[j])]]
      [] n.node = "Expr" -> [n EXCEPT !.value = Redact(n.value)]
      [] n.node = "Assign" ->
            [n EXCEPT !.targets = [j \in 1..Len(n.targets) |-> Redact(n.targets[j])],
                      !.value = Redact(n.value)]
      [] n.node = "AugAssign" ->
            [n EXCEPT !.target = Redact(n.target), !.value = Redact(n.value)]
      [] n.node = "Module" ->
            [n EXCEPT !.body = [j \in 1..Len(n.body) |-> Redact(n.body[j])]]

-----------------------------------------------------------------------------
(* ast.dump(tree): the tree written out as text.                           *)

RECURSIVE EqOps(_)
EqOps(k) ==
    IF k = 0 THEN <<>>
    ELSE IF k = 1 THEN <<"Eq()">>
    ELSE <<"Eq()", ", ">> \o EqOps(k - 1)

RECURSIVE Dump(_)
RECURSIVE DumpList(_, _)
DumpList(ns, i) ==
    IF i > Len(ns) THEN <<>>
    ELSE (IF i > 1 THEN <<", ">> ELSE <<>>) \o Dump(ns[i]) \o DumpList(ns, i + 1)

Dump(n) ==
    CASE n.node = "Name" ->
            <<"Name(id='">> \o n.id \o <<"', ctx=", n.ctx, "())">>
      [] n.node = "Constant" -> <<"Constant(value=">> \o n.value \o <<")">>
      [] n.node = "UnaryOp" ->
            <<"UnaryOp(op=", n.op, "(), operand=">> \o Dump(n.operand) \o <<")">>
      [] n.node = "BinOp" ->
            <<"BinOp(left=">> \o Dump(n.left) \o <<", op=", n.op, "(), right=">>
                \o Dump(n.right) \o <<")">>
      [] n.node = "Compare" ->
            <<"Compare(left=">> \o Dump(n.left) \o <<", ops=[">>
                \o EqOps(Len(n.comparators))
                \o <<"], comparators=[">> \o DumpList(n.comparators, 1) \o <<"])">>
      [] n.node = "Expr" -> <<"Expr(value=">> \o Dump(n.value) \o <<")">>
      [] n.node = "Assign" ->
            <<"Assign(targets=[">> \o DumpList(n.targets, 1) \o <<"], value=">>
                \o Dump(n.value) \o <<")">>
      [] n.node = "AugAssign" ->
            <<"AugAssign(target=">> \o Dump(n.target) \o <<", op=", n.op, "(), value=">>
                \o Dump(n.value) \o <<")">>
      [] n.node = "Module" ->
            <<"Module(body=[">> \o DumpList(n.body, 1) \o <<"], type_ignores=[])">>

\* md5 of the dump of the redacted tree, or None when the line does not parse
HashOfTree(tree) == IF tree.ok THEN md5(Dump(Redact(tree.node))) ELSE None

get_ast_hash(code) == HashOfTree(ast_parse(code))

-----------------------------------------------------------------------------
(* Stored documents.  A path is the uploaded file's name, split as         *)
(* os.path.splitext does; a stored document is its text and whether        *)
(* reading it fails (bytes that do not decode, a damaged container).       *)

Path(stem, ext) == [stem |-> stem, ext |-> ext]

Stored(text, corrupt) == [text |-> text, corrupt |-> corrupt]

\* str.lower() on the extensions of the model
lower(ext) ==
    CASE ext = "TXT" -> "txt"
      [] ext = "PY" -> "py"
      [] OTHER -> ext

\* os.path.splitext(path)[1].lstrip('.')
splitext_ext(path) == path.ext

Returned(v) == [raised |-> "none", value |-> v]

Raised(exc) == [raised |-> exc, value |-> <<>>]

\* both extractors catch every exception and return the text read so far
extract_text_from_pdf(doc) == IF doc.corrupt THEN <<>> ELSE doc.text

extract_text_from_docx(doc) == IF doc.corrupt THEN <<>> ELSE doc.text

\* open(file_path, 'r').read() is not guarded: a decoding failure raises
\* UnicodeDecodeError, a subclass of ValueError
get_text_from_file(file_path, fs) ==
    LET ext == lower(splitext_ext(file_path))
    IN  IF ext = "pdf" THEN Returned(extract_text_from_pdf(fs[file_path]))
        ELSE IF ext = "docx" THEN Returned(extract_text_from_docx(fs[file_path]))
        ELSE IF fs[file_path].corrupt THEN Raised("ValueError")
        ELSE Returned(fs[file_path].text)

-----------------------------------------------------------------------------
(* Percentages: (overlap_count / total_lines) * 100, as a rational.        *)

RECURSIVE GCD(_, _)
GCD(a, b) == IF b = 0 THEN a ELSE GCD(b, a % b)

Rat(n, d) == LET g == GCD(n, d) IN <<n \div g, d \div g>>

RatLess(p, q) == p[1] * q[2] < q[1] * p[2]

overlap_percentage_of(overlap_count, total_lines) ==
    IF total_lines > 0 THEN Rat(overlap_count * 100, total_lines) ELSE Rat(0, 1)

-----------------------------------------------------------------------------
(* The fingerprints of one line (the if/else that opens each loop body).   *)

\* a variant without the token-shape fingerprint: structure only
LineHashesStructural(line, is_code_) ==
    IF is_code_
    THEN [normalized_hash |-> get_ast_hash(line), tokenized_hash |-> None]
    ELSE [normalized_hash |-> get_text_hash(line), tokenized_hash |-> None]

LineHashes(line, is_code_) ==
    IF is_code_
    THEN [normalized_hash |-> get_ast_hash(line), tokenized_hash |-> get_tokens(line)]
    ELSE [normalized_hash |-> get_text_hash(line), tokenized_hash |-> None]

\* {}
EmptyDict == [k \in {} |-> <<>>]

\* dict[key] = value
DictPut(d, key, value) ==
    [k \in DOMAIN d \cup {key} |-> IF k = key THEN value ELSE d[k]]

(* compare_files, first loop: the index over the first document, a dict    *)
(* from fingerprint to the last line that produced it.                     *)
RECURSIVE FilesIndex(_, _, _, _)
FilesIndex(lines1, i, is_code_, hash_table) ==
    IF i > Len(lines1) THEN hash_table
    ELSE LET h == LineHashes(lines1[i], is_code_)
             t1 == IF Truthy(h.normalized_hash)
                   THEN DictPut(hash_table, h.normalized_hash, lines1[i])
                   ELSE hash_table
             t2 == IF Truthy(h.tokenized_hash)
                   THEN DictPut(t1, h.tokenized_hash, lines1[i])
                   ELSE t1
         IN  FilesIndex(lines1, i + 1, is_code_, t2)

\* a variant of the test that looks up the first fingerprint only
FilesHitNormalized(line, is_code_, hash_table) ==
    LineHashes(line, is_code_).normalized_hash \in DOMAIN hash_table

\* a variant of the second loop that reports a line once per fingerprint that hits
FilesHits(h, hash_table) ==
    (IF h.normalized_hash \in DOMAIN hash_table THEN 1 ELSE 0)
        + (IF Truthy(h.tokenized_hash) /\ h.tokenized_hash \in DOMAIN hash_table
           THEN 1 ELSE 0)

RECURSIVE FilesProbePerHash(_, _, _, _)
FilesProbePerHash(lines2, i, is_code_, hash_table) ==
    IF i > Len(lines2) THEN <<>>
    ELSE [k \in 1..FilesHits(LineHashes(lines2[i], is_code_), hash_table) |-> lines2[i]]
         \o FilesProbePerHash(lines2, i + 1, is_code_, hash_table)

\* the test of the second loop
FilesHit(line, is_code_, hash_table) ==
    LET h == LineHashes(line, is_code_)
    IN  \/ h.normalized_hash \in DOMAIN hash_table
        \/ (Truthy(h.tokenized_hash) /\ h.tokenized_hash \in DOMAIN hash_table)

\* compare_files, second loop: the lines of the second document that hit
RECURSIVE FilesProbe(_, _, _, _)
FilesProbe(lines2, i, is_code_, hash_table) ==
    IF i > Len(lines2) THEN <<>>
    ELSE (IF FilesHit(lines2[i], is_code_, hash_table) THEN <<lines2[i]>> ELSE <<>>)
         \o FilesProbe(lines2, i + 1, is_code_, hash_table)

\* compare_files from the two texts on (lines 102-140)
CompareContents(c1, c2, is_code_) ==
    LET lines1 == splitlines(c1)
        lines2 == splitlines(c2)
        hash_table == FilesIndex(lines1, 1, is_code_, EmptyDict)
        overlapping_lines == FilesProbe(lines2, 1, is_code_, hash_table)
        overlap_count == Len(overlapping_lines)
        total_lines == Len(lines2)
    IN  [overlap_percentage |-> overlap_percentage_of(overlap_count, total_lines),
         overlap_count |-> overlap_count,
         overlapping_lines |-> overlapping_lines]

CompareRead(r1, r2, is_code_) ==
    IF r1.raised # "none" THEN r1
    ELSE IF r2.raised # "none" THEN r2
    ELSE Returned(CompareContents(r1.value, r2.value, is_code_))

compare_files(file1, file2, is_code_, fs) ==
    CompareRead(get_text_from_file(file1, fs), get_text_from_file(file2, fs), is_code_)

(* compare_two_codes, first loop: the index is a set of fingerprints.      *)
RECURSIVE CodesIndex(_, _, _, _)
CodesIndex(lines1, i, is_code_, hash_table) ==
    IF i > Len(lines1) THEN hash_table
    ELSE LET h == LineHashes(lines1[i], is_code_)
             t1 == IF Truthy(h.normalized_hash)
                   THEN hash_table \cup {h.normalized_hash} ELSE hash_table
             t2 == IF Truthy(h.tokenized_hash)
                   THEN t1 \cup {h.tokenized_hash} ELSE t1
         IN  CodesIndex(lines1, i + 1, is_code_, t2)

\* a variant of the test that looks up the first fingerprint only
CodesHitNormalized(line, is_code_, hash_table) ==
    LineHashes(line, is_code_).normalized_hash \in hash_table

CodesHit(line, is_code_, hash_table) ==
    LET h == LineHashes(line, is_code_)
    IN  \/ h.normalized_hash \in hash_table
        \/ (Truthy(h.tokenized_hash) /\ h.tokenized_hash \in hash_table)

\* compare_two_codes, second loop: the count of lines that hit
RECURSIVE CodesProbe(_, _, _, _)
CodesProbe(lines2, i, is_code_, hash_table) ==
    IF i > Len(lines2) THEN 0
    ELSE (IF CodesHit(lines2[i], is_code_, hash_table) THEN 1 ELSE 0)
         + CodesProbe(lines2, i + 1, is_code_, hash_table)

\* returns the pair (overlap_percentage, overlap_count)
compare_two_codes(code1, code2, is_code_) ==
    LET lines1 == splitlines(code1)
        lines2 == splitlines(code2)
        hash_table == CodesIndex(lines1, 1, is_code_, {})
        overlap_count == CodesProbe(lines2, 1, is_code_, hash_table)
        total_lines == Len(lines2)
    IN  <<overlap_percentage_of(overlap_count, total_lines), overlap_count>>

-----------------------------------------------------------------------------
(* group_similar_files.                                                    *)

SUPPORTED_LANGUAGES ==
    {"py", "java", "cpp", "js", "php", "rb", "go", "swift", "kt", "ts",
     "txt", "pdf", "docx"}

\* the extensions both routes test the (cased or lowered) extension against
FreeTextExtensions == {"txt", "pdf", "docx"}

\* itertools.combinations(range(1, n + 1), 2): the index pairs i < j in
\* lexicographic order
RECURSIVE PairsFrom(_, _, _)
PairsFrom(i, j, n) ==
    IF i >= n THEN <<>>
    ELSE IF j > n THEN PairsFrom(i + 1, i + 2, n)
    ELSE <<(<<i, j>>)>> \o PairsFrom(i, j + 1, n)

combinations2(n) == PairsFrom(1, 2, n)

Reverse(s) == [k \in 1..Len(s) |-> s[Len(s) + 1 - k]]

\* x put into the ascending sequence s behind every element not greater than it
RECURSIVE InsertAscending(_, _)
InsertAscending(s, x) ==
    IF s = <<>> THEN <<x>>
    ELSE IF RatLess(x.similarity_percentage, Head(s).similarity_percentage)
         THEN <<x>> \o s
         ELSE <<Head(s)>> \o InsertAscending(Tail(s), x)

\* list.sort(): ascending by key, equal keys keep their order
RECURSIVE SortAscending(_)
SortAscending(s) ==
    IF s = <<>> THEN <<>>
    ELSE InsertAscending(SortAscending(SubSeq(s, 1, Len(s) - 1)), s[Len(s)])

\* a variant that sorts ascending and reverses: ties come out reversed
sorted_then_reversed(similarities) == Reverse(SortAscending(similarities))

\* sorted(similarities, key=lambda x: x[2], reverse=True): the list is
\* reversed, sorted ascending and reversed again
sorted_reverse(similarities) == Reverse(SortAscending(Reverse(similarities)))

\* read_code_files: the dict path -> text, or the first exception of a read
RECURSIVE ReadEach(_, _, _, _)
RECURSIVE ReadNext(_, _, _, _, _)
ReadNext(file_paths, i, fs, code_contents, text) ==
    IF text.raised # "none" THEN text
    ELSE ReadEach(file_paths, i + 1, fs, DictPut(code_contents, file_paths[i], text.value))

ReadEach(file_paths, i, fs, code_contents) ==
    IF i > Len(file_paths) THEN Returned(code_contents)
    ELSE ReadNext(file_paths, i, fs, code_contents, get_text_from_file(file_paths[i], fs))

read_code_files(file_paths, fs) == ReadEach(file_paths, 1, fs, EmptyDict)

\* the class a pair is scored under: the first file's extension as written
group_is_code(file1) == splitext_ext(file1) \notin FreeTextExtensions

(* One entry of similarities: the tuple (file1, file2, percentage) of the   *)
(* code, with two bookkeeping fields the code does not return: the index   *)
(* pair the entry was generated from and the class it was scored under.    *)
Similarity(file_paths, pair, file_contents) ==
    [file1 |-> file_paths[pair[1]],
     file2 |-> file_paths[pair[2]],
     similarity_percentage |->
         compare_two_codes(file_contents[file_paths[pair[1]]],
                           file_contents[file_paths[pair[2]]],
                           group_is_code(file_paths[pair[1]]))[1],
     pair |-> pair,
     is_code |-> group_is_code(file_paths[pair[1]])]

Similarities(file_paths, pairs, file_contents) ==
    [k \in 1..Len(pairs) |-> Similarity(file_paths, pairs[k], file_contents)]

GroupContents(file_paths, file_contents) ==
    IF file_contents.raised # "none" THEN file_contents
    ELSE Returned(sorted_reverse(
             Similarities(file_paths, combinations2(Len(file_paths)),
                          file_contents.value)))

group_similar_files(file_paths, fs) ==
    GroupContents(file_paths, read_code_files(file_paths, fs))

-----------------------------------------------------------------------------
(* The validators the /group route calls.                                  *)

\* validate_file_path: os.path.exists
validate_file_path(file_path, fs) ==
    IF file_path \in DOMAIN fs THEN Returned(<<>>) ELSE Raised("ValueError")

validate_file_extension(file_path) ==
    IF lower(splitext_ext(file_path)) \in SUPPORTED_LANGUAGES
    THEN Returned(<<>>) ELSE Raised("ValueError")

validate_all_same_language(file_paths) ==
    IF Cardinality({lower(splitext_ext(file_paths[i])) : i \in 1..Len(file_paths)}) > 1
    THEN Raised("ValueError") ELSE Returned(<<>>)

\* the loop over file_paths: the first validator that raises ends it
RECURSIVE ValidateEach(_, _, _)
ValidateEach(file_paths, i, fs) ==
    IF i > Len(file_paths) THEN Returned(<<>>)
    ELSE IF validate_file_path(file_paths[i], fs).raised # "none"
         THEN validate_file_path(file_paths[i], fs)
    ELSE IF validate_file_extension(file_paths[i]).raised # "none"
         THEN validate_file_extension(file_paths[i])
    ELSE ValidateEach(file_paths, i + 1, fs)

-----------------------------------------------------------------------------
(* The upload folder and the two routes.  An upload is the secured file    *)
(* name and the document sent under it; a form (request.files) gives, for  *)
(* each field name, the uploads sent under it, none when the field is      *)
(* absent.                                                                 *)

Form(file1, file2, files) == [file1 |-> file1, file2 |-> file2, files |-> files]

Upload(name, doc) == [name |-> name, doc |-> doc]

\* file.save(path): the file is written, replacing one already at that path
RECURSIVE SaveAll(_, _, _)
SaveAll(files, i, fs) ==
    IF i > Len(files) THEN fs
    ELSE SaveAll(files, i + 1, DictPut(fs, files[i].name, files[i].doc))

DictDel(d, key) == [k \in DOMAIN d \ {key} |-> d[k]]

\* the os.remove loop: removing a path that is gone raises FileNotFoundError
\* and leaves the later files in place
RECURSIVE RemoveAll(_, _, _)
RemoveAll(file_paths, i, fs) ==
    IF i > Len(file_paths) THEN [raised |-> "none", fs |-> fs]
    ELSE IF file_paths[i] \notin DOMAIN fs
         THEN [raised |-> "FileNotFoundError", fs |-> fs]
         ELSE RemoveAll(file_paths, i + 1, DictDel(fs, file_paths[i]))

\* the except clauses of both routes: ValueError is answered 400, anything
\* else goes to handle_generic_exception
Response(kind, body) == [kind |-> kind, body |-> body]

ErrorResponse(exc) ==
    IF exc = "ValueError" THEN Response("user_error", <<>>)
    ELSE Response("internal_error", <<>>)

Outcome(resp, fs, grp) == [response |-> resp, uploads |-> fs, grouped |-> grp]

NotGrouped == [returned |-> FALSE, edges |-> <<>>]

\* the class the /compare route scores under: both extensions, lowered
compare_is_code(file1_path, file2_path) ==
    /\ lower(splitext_ext(file1_path)) \notin FreeTextExtensions
    /\ lower(splitext_ext(file2_path)) \notin FreeTextExtensions

\* /compare from compare_files' result on: remove both files, answer
CompareCleanup(result, removed) ==
    IF removed.raised # "none"
    THEN Outcome(ErrorResponse(removed.raised), removed.fs, NotGrouped)
    ELSE Outcome(Response("result", result.value), removed.fs, NotGrouped)

CompareResult(file1_path, file2_path, fs, result) ==
    IF result.raised # "none"
    THEN Outcome(ErrorResponse(result.raised), fs, NotGrouped)
    ELSE CompareCleanup(result, RemoveAll(<<file1_path, file2_path>>, 1, fs))

\* /compare once both files are saved
CompareSaved(file1_path, file2_path, fs) ==
    CompareResult(file1_path, file2_path, fs,
        compare_files(file1_path, file2_path,
                      compare_is_code(file1_path, file2_path), fs))

\* the /compare route; request.files['file1'] raises BadRequestKeyError, which
\* is a KeyError and no ValueError, when the field is absent
compare(form, fs) ==
    IF form.file1 = <<>> \/ form.file2 = <<>>
    THEN Outcome(ErrorResponse("BadRequestKeyError"), fs, NotGrouped)
    ELSE CompareSaved(form.file1[1].name, form.file2[1].name,
                      SaveAll(<<form.file1[1], form.file2[1]>>, 1, fs))

\* the tuples of the answer: (file1, file2, percentage)
grouped_files(edges) ==
    [k \in 1..Len(edges) |->
        <<edges[k].file1, edges[k].file2, edges[k].similarity_percentage>>]

\* /group once group_similar_files has returned: remove the files, answer
GroupCleanup(edges, removed) ==
    IF removed.raised # "none"
    THEN Outcome(ErrorResponse(removed.raised), removed.fs,
                 [returned |-> TRUE, edges |-> edges])
    ELSE Outcome(Response("result", grouped_files(edges)), removed.fs,
                 [returned |-> TRUE, edges |-> edges])

GroupResult(file_paths, fs, result) ==
    IF result.raised # "none"
    THEN Outcome(ErrorResponse(result.raised), fs, NotGrouped)
    ELSE GroupCleanup(result.value, RemoveAll(file_paths, 1, fs))

\* /group once every file is saved
GroupSaved(file_paths, fs) ==
    IF ValidateEach(file_paths, 1, fs).raised # "none"
    THEN Outcome(ErrorResponse("ValueError"), fs, NotGrouped)
    ELSE IF validate_all_same_language(file_paths).raised # "none"
    THEN Outcome(ErrorResponse("ValueError"), fs, NotGrouped)
    ELSE GroupResult(file_paths, fs, group_similar_files(file_paths, fs))

\* the /group route; getlist('files') is empty when the field is absent
group(form, fs) ==
    GroupSaved([i \in 1..Len(form.files) |-> form.files[i].name],
               SaveAll(form.files, 1, fs))

-----------------------------------------------------------------------------
(* State.                                                                  *)

VARIABLES
    content1,       \* the text of the first (reference) document
    content2,       \* the text of the second (candidate) document
    is_code,        \* the content class: TRUE structured, FALSE free text
    ran,            \* which comparators have returned
    files_result,   \* what compare_files returned
    codes_result,   \* what compare_two_codes returned
    request,        \* the request being served: its route and its files
    response,       \* the answer: pending, result, user_error or internal_error
    grouped,        \* what group_similar_files returned, if it did
    uploads         \* the upload folder: path -> stored document

vars == <<content1, content2, is_code, ran, files_result, codes_result,
          request, response, grouped, uploads>>

engine_vars == <<content1, content2, is_code, ran, files_result, codes_result>>

service_vars == <<request, response, grouped, uploads>>

-----------------------------------------------------------------------------
(* The inputs of the comparators: every text of at most MaxLen characters  *)
(* over ExhaustAlphabet, every document of at most MaxLines lines taken    *)
(* from PoolLines, and the two documents of the specification's scenario.  *)

ExhaustAlphabet == {"x", "1", "=", " ", NL}

PoolLines ==
    { <<"x", " ", "=", " ", "1">>,
      <<"y", " ", "=", " ", "2">>,
      <<"x", " ", "+", " ", "y">>,
      <<"}">> }

RECURSIVE JoinLines(_)
JoinLines(ls) ==
    IF ls = <<>> THEN <<>>
    ELSE IF Len(ls) = 1 THEN ls[1]
    ELSE ls[1] \o <<NL>> \o JoinLines(Tail(ls))

ScenarioA == JoinLines(<< <<"x", " ", "=", " ", "1">>, <<"y", " ", "=", " ", "2">> >>)

ScenarioB == JoinLines(<< <<"x", " ", "=", " ", "1">>, <<"z", " ", "=", " ", "3">> >>)

Texts ==
    SeqUpTo(ExhaustAlphabet, MaxLen)
        \cup {JoinLines(ls) : ls \in SeqUpTo(PoolLines, MaxLines)}
        \cup {ScenarioA, ScenarioB}

NoFilesResult == [overlap_percentage |-> Rat(0, 1), overlap_count |-> 0,
                  overlapping_lines |-> <<>>]

NoCodesResult == <<Rat(0, 1), 0>>

NoRequest == [route |-> "none", form |-> Form(<<>>, <<>>, <<>>)]

Pending == Response("pending", <<>>)

Init ==
    /\ content1 \in Texts
    /\ content2 \in Texts
    /\ is_code \in BOOLEAN
    /\ ran = {}
    /\ files_result = NoFilesResult
    /\ codes_result = NoCodesResult
    /\ request = NoRequest
    /\ response = Pending
    /\ grouped = NotGrouped
    /\ uploads = EmptyDict

\* the two documents as stored files that read back without error
File1 == Path("file1", "py")

File2 == Path("file2", "py")

StoredPair ==
    [p \in {File1, File2} |->
        IF p = File1 THEN Stored(content1, FALSE) ELSE Stored(content2, FALSE)]

CompareFiles ==
    /\ "compare_files" \notin ran
    /\ ran' = ran \cup {"compare_files"}
    /\ files_result' = compare_files(File1, File2, is_code, StoredPair).value
    /\ UNCHANGED <<content1, content2, is_code, codes_result>>
    /\ UNCHANGED service_vars

CompareTwoCodes ==
    /\ "compare_two_codes" \notin ran
    /\ ran' = ran \cup {"compare_two_codes"}
    /\ codes_result' = compare_two_codes(content1, content2, is_code)
    /\ UNCHANGED <<content1, content2, is_code, files_result>>
    /\ UNCHANGED service_vars

Next == CompareFiles \/ CompareTwoCodes

Spec == Init /\ [][Next]_vars

-----------------------------------------------------------------------------
(* The service: one request, received with an empty upload folder, and the *)
(* route that answers it.                                                  *)

Stems == {"a", "b"}

Extensions == {"py", "txt", "TXT", "pdf", "exe"}

DocumentOne == JoinLines(<< <<"x", " ", "=", " ", "1">>, <<"y", " ", "=", " ", "2">> >>)

DocumentTwo == JoinLines(<< <<"x", " ", "=", " ", "1">>, <<"}">> >>)

Documents ==
    {Stored(DocumentOne, FALSE), Stored(DocumentTwo, FALSE), Stored(DocumentOne, TRUE)}

Uploads ==
    {Upload(Path(st, ext), doc) : st \in Stems, ext \in Extensions, doc \in Documents}

\* a /compare request: each of the two fields absent or one upload
CompareRequests ==
    {[route |-> "compare", form |-> Form(f1, f2, <<>>)] :
        f1 \in SeqUpTo(Uploads, 1), f2 \in SeqUpTo(Uploads, 1)}

\* a /group request of at most n uploads
GroupRequests(n) ==
    {[route |-> "group", form |-> Form(<<>>, <<>>, fl)] : fl \in SeqUpTo(Uploads, n)}

ServiceInit ==
    /\ request \in CompareRequests \cup GroupRequests(MaxFiles)
    /\ response = Pending
    /\ grouped = NotGrouped
    /\ uploads = EmptyDict
    /\ content1 = <<>>
    /\ content2 = <<>>
    /\ is_code = TRUE
    /\ ran = {}
    /\ files_result = NoFilesResult
    /\ codes_result = NoCodesResult

Serve(outcome) ==
    /\ response' = outcome.response
    /\ uploads' = outcome.uploads
    /\ grouped' = outcome.grouped
    /\ UNCHANGED request
    /\ UNCHANGED engine_vars

HandleCompare ==
    /\ response.kind = "pending"
    /\ request.route = "compare"
    /\ Serve(compare(request.form, uploads))

HandleGroup ==
    /\ response.kind = "pending"
    /\ request.route = "group"
    /\ Serve(group(request.form, uploads))

ServiceNext == HandleCompare \/ HandleGroup

ServiceSpec == ServiceInit /\ [][ServiceNext]_vars

-----------------------------------------------------------------------------
(* Vocabulary of the properties.                                           *)

Hundred == Rat(100, 1)

\* a percentage p equals 100 * count / total, without reducing the fraction
IsPercentOf(p, count, total) == p[1] * total = 100 * count * p[2]

\* the number of lines of a text, counted from its line breaks
CountLines(t) ==
    Cardinality({i \in 1..Len(t) : t[i] = NL})
        + (IF t # <<>> /\ t[Len(t)] # NL THEN 1 ELSE 0)

\* a document of exactly one line: no line break except, possibly, a last one
SingleLineDoc(t) == t # <<>> /\ \A i \in 1..(Len(t) - 1) : t[i] # NL

\* the one line of a single-line document
OnlyLine(t) == IF t[Len(t)] = NL THEN SubSeq(t, 1, Len(t) - 1) ELSE t

\* a line with its word characters made anonymous and each word run cut to one
\* mark: what is left is the punctuation and the places of the words
Anonymous(l) == [i \in 1..Len(l) |-> IF l[i] \in WordChars THEN "w" ELSE l[i]]

WordShape(l) ==
    LET a == Anonymous(l)
        keep == {i \in 1..Len(l) : ~(a[i] = "w" /\ i > 1 /\ a[i - 1] = "w")}
        Nth(k) == CHOOSE i \in keep : Cardinality({j \in keep : j < i}) = k - 1
    IN  [k \in 1..Cardinality(keep) |-> a[Nth(k)]]

\* two lines that differ at most in how their word tokens are spelled
RenamedOnly(l1, l2) == WordShape(l1) = WordShape(l2)

InScenario ==
    /\ content1 = ScenarioA
    /\ content2 = ScenarioB
    /\ is_code
    /\ "compare_files" \in ran

-----------------------------------------------------------------------------
(* C1 as the specification states it: in the scenario A = ["x = 1",        *)
(* "y = 2"], B = ["x = 1", "z = 3"], structured class, compare_files       *)
(* reports overlap_count 1 of 2 lines, 50 percent, and the matched lines   *)
(* ["x = 1"].                                                              *)
C1_ScenarioHalf ==
    InScenario =>
        /\ files_result.overlap_count = 1
        /\ CountLines(content2) = 2
        /\ files_result.overlap_percentage = Rat(50, 1)
        /\ files_result.overlapping_lines = << <<"x", " ", "=", " ", "1">> >>

(* C1, amended: in that scenario compare_files reports overlap_count 2 of  *)
(* 2 lines, 100 percent, and the matched lines ["x = 1", "z = 3"]: the     *)
(* token-shape fingerprint of "z = 3" is that of "x = 1" and "y = 2".      *)
C1_ScenarioFull ==
    InScenario =>
        /\ files_result.overlap_count = 2
        /\ CountLines(content2) = 2
        /\ files_result.overlap_percentage = Hundred
        /\ files_result.overlapping_lines =
               << <<"x", " ", "=", " ", "1">>, <<"z", " ", "=", " ", "3">> >>

C1_Witness == InScenario

(* C2: structured class, two single-line documents whose lines differ only *)
(* in the spelling of word tokens: compare_files reports 100 percent,      *)
(* whether or not the line parses.  Both argument orders are covered: the  *)
(* relation is symmetric and every ordered pair of texts is an input.      *)
C2_RenameMatches ==
    ( /\ is_code
      /\ "compare_files" \in ran
      /\ SingleLineDoc(content1)
      /\ SingleLineDoc(content2)
      /\ RenamedOnly(OnlyLine(content1), OnlyLine(content2)) )
    => files_result.overlap_percentage = Hundred

\* a renamed pair of lines that do not parse, and with different spellings
C2_Witness ==
    /\ is_code
    /\ "compare_files" \in ran
    /\ SingleLineDoc(content1)
    /\ SingleLineDoc(content2)
    /\ content1 # content2
    /\ OnlyLine(content1) # OnlyLine(content2)
    /\ RenamedOnly(OnlyLine(content1), OnlyLine(content2))
    /\ ~ast_parse(OnlyLine(content1)).ok
    /\ ~ast_parse(OnlyLine(content2)).ok
    /\ files_result.overlap_percentage = Hundred

(* C3: a non-empty text compared with itself, in either class, scores 100  *)
(* percent in compare_files and in compare_two_codes.                      *)
C3_SelfSimilarity ==
    (content1 = content2 /\ content1 # <<>>) =>
        /\ "compare_files" \in ran => files_result.overlap_percentage = Hundred
        /\ "compare_two_codes" \in ran => codes_result[1] = Hundred

\* a text with a blank line and a line that does not parse, compared with itself
C3_Witness ==
    /\ content1 = content2
    /\ is_code
    /\ ran = {"compare_files", "compare_two_codes"}
    /\ \E i \in 1..Len(splitlines(content1)) : splitlines(content1)[i] = <<>>
    /\ \E i \in 1..Len(splitlines(content1)) : ~ast_parse(splitlines(content1)[i]).ok
    /\ files_result.overlap_percentage = Hundred

(* C4: overlap_count lies between 0 and the number of lines of the second  *)
(* document, one per matched line; overlap_percentage is 100 * count over  *)
(* that number of lines, and 0 with count 0 when there are none.           *)
C4_CountAndPercentage ==
    "compare_files" \in ran =>
        /\ files_result.overlap_count >= 0
        /\ files_result.overlap_count <= CountLines(content2)
        /\ files_result.overlap_count = Len(files_result.overlapping_lines)
        /\ CountLines(content2) > 0 =>
               IsPercentOf(files_result.overlap_percentage,
                           files_result.overlap_count, CountLines(content2))
        /\ CountLines(content2) = 0 =>
               /\ files_result.overlap_count = 0
               /\ files_result.overlap_percentage = Rat(0, 1)

\* a candidate line whose two fingerprints both hit, beside one that misses
C4_Witness ==
    /\ "compare_files" \in ran
    /\ is_code
    /\ CountLines(content2) = 2
    /\ files_result.overlap_count = 1
    /\ \E i \in 1..2 :
          LET h == LineHashes(splitlines(content2)[i], TRUE)
              index == CodesIndex(splitlines(content1), 1, TRUE, {})
          IN  h.normalized_hash \in index /\ h.tokenized_hash \in index

(* C9: compare_two_codes returns exactly the percentage and the count that *)
(* compare_files reports for the same two texts and class.                 *)
C9_ScalarEqualsFull ==
    ran = {"compare_files", "compare_two_codes"} =>
        codes_result = <<files_result.overlap_percentage, files_result.overlap_count>>

\* two reference lines share a fingerprint (the dict keeps the last), and some
\* but not all candidate lines match
C9_Witness ==
    /\ ran = {"compare_files", "compare_two_codes"}
    /\ is_code
    /\ Len(splitlines(content1)) = 2
    /\ splitlines(content1)[1] # splitlines(content1)[2]
    /\ get_tokens(splitlines(content1)[1]) = get_tokens(splitlines(content1)[2])
    /\ codes_result[2] = 1
    /\ Len(splitlines(content2)) = 2

-----------------------------------------------------------------------------
(* Vocabulary of the properties of the service.                            *)

Answered == response.kind # "pending"

\* the stored paths of a /group request, in upload order
GroupPaths == [i \in 1..Len(request.form.files) |-> request.form.files[i].name]

\* the uploads a request carries, whatever its route
Carried ==
    {request.form.file1[i] : i \in 1..Len(request.form.file1)}
        \cup {request.form.file2[i] : i \in 1..Len(request.form.file2)}
        \cup {request.form.files[i] : i \in 1..Len(request.form.files)}

\* the content class an extension is declared to map to, whatever its case
DeclaredStructured(ext) == lower(ext) \notin FreeTextExtensions

LexLess(p, q) == p[1] < q[1] \/ (p[1] = q[1] /\ p[2] < q[2])

\* a request that breaks a precondition: a missing file field, no document,
\* an unsupported extension, or documents of more than one content class
PreconditionViolated ==
    \/ request.route = "compare" /\ (request.form.file1 = <<>> \/ request.form.file2 = <<>>)
    \/ request.route = "group" /\ request.form.files = <<>>
    \/ \E u \in Carried : lower(u.name.ext) \notin SUPPORTED_LANGUAGES
    \/ \E u, v \in Carried : DeclaredStructured(u.name.ext) # DeclaredStructured(v.name.ext)

(* C5 as the specification states it: when the batch passes validation and *)
(* group_similar_files returns, there are N*(N-1)/2 edges, no edge has the *)
(* same document on both sides, and every unordered pair of distinct       *)
(* documents is in exactly one edge.                                       *)
C5_GroupingComplete ==
    grouped.returned =>
        LET n == Len(GroupPaths)
            edges == grouped.edges
            docs == {GroupPaths[i] : i \in 1..n}
        IN  /\ Len(edges) = (n * (n - 1)) \div 2
            /\ \A k \in 1..Len(edges) : edges[k].file1 # edges[k].file2
            /\ \A p, q \in docs :
                  p # q =>
                      Cardinality({k \in 1..Len(edges) :
                          {edges[k].file1, edges[k].file2} = {p, q}}) = 1

(* C6: the edges group_similar_files returns never increase in percentage, *)
(* and edges of equal percentage stand in the order they were generated:   *)
(* the lexicographic order of their index pairs (i, j), i < j.             *)
C6_StableDescending ==
    grouped.returned =>
        LET edges == grouped.edges
        IN  /\ \A k \in 1..Len(edges) :
                  /\ edges[k].pair[1] < edges[k].pair[2]
                  /\ edges[k].file1 = GroupPaths[edges[k].pair[1]]
                  /\ edges[k].file2 = GroupPaths[edges[k].pair[2]]
            /\ \A k, l \in 1..Len(edges) :
                  k < l =>
                      /\ ~RatLess(edges[k].similarity_percentage,
                                  edges[l].similarity_percentage)
                      /\ edges[k].similarity_percentage = edges[l].similarity_percentage
                             => LexLess(edges[k].pair, edges[l].pair)

\* an answered batch with a tie and with an edge the sort moved forward
C6_Witness ==
    /\ grouped.returned
    /\ response.kind = "result"
    /\ \E k, l \in 1..Len(grouped.edges) :
          /\ k < l
          /\ grouped.edges[k].similarity_percentage = grouped.edges[l].similarity_percentage
    /\ \E k, l \in 1..Len(grouped.edges) :
          /\ k < l
          /\ LexLess(grouped.edges[l].pair, grouped.edges[k].pair)

(* C7 as the specification states it: a request that breaks a precondition *)
(* is answered with the user-input error, never with a result and never    *)
(* with the internal error.                                                *)
C7_PreconditionsRejected ==
    (Answered /\ PreconditionViolated) => response.kind = "user_error"

(* C8 as the specification states it: a document that cannot be read       *)
(* yields empty text whatever its extension, so a /compare of two          *)
(* differently named files, one of them unreadable, still answers with a   *)
(* result, of 0 percent.                                                   *)
C8_ExtractionNeverFails ==
    ( /\ Answered
      /\ request.route = "compare"
      /\ request.form.file1 # <<>>
      /\ request.form.file2 # <<>>
      /\ request.form.file1[1].name # request.form.file2[1].name
      /\ (request.form.file1[1].doc.corrupt \/ request.form.file2[1].doc.corrupt) )
    => /\ response.kind = "result"
       /\ response.body.overlap_percentage = Rat(0, 1)

(* C10 as the specification states it: in a batch that passes validation   *)
(* every pair is scored under one class, the class the declared extension  *)
(* maps to whatever its letter case, which is also the class the /compare  *)
(* route scores the same two files under.                                  *)
C10_OneDeclaredClass ==
    grouped.returned =>
        /\ \A k \in 1..Len(grouped.edges) :
              /\ grouped.edges[k].is_code = DeclaredStructured(grouped.edges[k].file1.ext)
              /\ grouped.edges[k].is_code
                     = compare_is_code(grouped.edges[k].file1, grouped.edges[k].file2)
        /\ \A k, l \in 1..Len(grouped.edges) :
              grouped.edges[k].is_code = grouped.edges[l].is_code

====
